---- MODULE Spec2Model ----
(***************************************************************************)
(* Model of the pyqcsnu client (src/pyqcsnu/client.py, models.py):         *)
(* the SNUQ client object (token, session Authorization header), its       *)
(* request layer _make_request, the authentication operations, the job /   *)
(* backend / experiment operations, the blocking poll loop wait_for_job    *)
(* and run / expval, which submit a job and wait for it.                   *)
(* The remote service is the environment: every response                   *)
(* (status code and body, or a transport failure) is chosen with \E.       *)
(* The client is single-threaded: one operation is in progress at a time;  *)
(* an operation is split only at its blocking points (an HTTP request in   *)
(* flight, time.sleep).                                                    *)
(***************************************************************************)
EXTENDS Integers, Sequences, FiniteSets, TLC

\* ------------------------------------------------------------------ bounds
\* Largest timeout (seconds, integer clock) given to wait_for_job.
MaxTimeout == 2
\* Largest polling interval given to wait_for_job.
MaxInterval == 1
\* At most this many polls are explored inside one wait_for_job call.
MaxPolls == 3

\* ------------------------------------------------------------------ values
\* Python's None for the token, and the strings used as tokens.  The empty
\* string is a token value Python treats as false.
NoneTok == "<None>"
Tokens == {"tokA", "tokB"}
TokenValues == Tokens \cup {"", NoneTok}

\* `if token:` / `not self.token`
Truthy(t) == t \notin {NoneTok, ""}

\* str(token) inside the f-string of set_token
Str(t) == IF t = NoneTok THEN "None" ELSE t

\* session.headers without / with an Authorization entry
NoHeader == <<>>
HeaderFor(t) == <<"Token", Str(t)>>

\* ------------------------------------------------------------- exceptions
\* src/pyqcsnu/exceptions.py: every class derives from QuantumClientError.
ClientErrors ==
    {"QuantumClientError", "AuthenticationError", "APIError", "JobError",
     "BackendError", "CircuitError", "ResultError", "TimeoutError",
     "ValidationError", "ExperimentError"}

\* isinstance(e, cls) for the classes the client catches
IsInstance(exc, cls) ==
    CASE cls = "QuantumClientError" -> exc \in ClientErrors
      [] OTHER -> exc = cls

\* ---------------------------------------------------------------- endpoints
\* An endpoint is the sequence of its path segments.
EP_TOKEN == <<"api", "token">>
EP_HARDWARE == <<"api", "hardware">>
EP_HARDWARE_STATUS == <<"api", "hardware", "status">>
EP_JOB_CREATE == <<"api", "runner", "jobs", "create">>
EP_JOBS == <<"api", "runner", "jobs">>
EP_JOB == <<"api", "runner", "jobs", "<id>">>
EP_ARCHIVE == <<"api", "runner", "archives", "<id>">>
EP_JOB_CANCEL == <<"api", "runner", "jobs", "<id>", "cancel">>
EP_EXPERIMENTS == <<"api", "experiments">>
EP_EXPERIMENT == <<"api", "experiments", "<id>">>
EP_LOGIN == <<"api", "user", "login">>

\* Python's `needle in endpoint` (substring).  The needles hold no "/", so a
\* match lies inside one segment; the table lists the segments of the
\* endpoints above that contain each needle.
SegHas(seg, needle) ==
    <<seg, needle>> \in {<<"jobs", "job">>, <<"experiments", "experiment">>}

EndpointHas(ep, needle) == \E i \in 1..Len(ep) : SegHas(ep[i], needle)

\* ---------------------------------------------------------------- responses
\* Bodies the service can send.  t: "empty" (no text), "text" (not JSON),
\* "list" (a JSON array), "obj" (a JSON object of some kind).
ErrorTexts == {"bad gate"}
ErrorMessages == {NoneTok, ""} \cup ErrorTexts
JobStatuses == {"created", "running", "completed", "error", "cancelled", "pending"}
TerminalStatuses == {"completed", "error", "cancelled"}

JobBodies ==
    {[t |-> "obj", kind |-> "job", status |-> s, error_message |-> NoneTok] :
        s \in JobStatuses}
    \cup {[t |-> "obj", kind |-> "job", status |-> s, error_message |-> m] :
        s \in {"error", "cancelled"}, m \in ErrorMessages}

ResultBodies ==
    {[t |-> "obj", kind |-> "result", shape |-> sh] :
        sh \in {"top_counts", "nested_counts", "nested_expval"}}

TokenBodies ==
    {[t |-> "obj", kind |-> "token", tok |-> k] : k \in TokenValues}

ListBodies ==
    {[t |-> "list", item |-> i] : i \in {"none", "job", "backend", "other"}}

\* Bodies any endpoint may answer with: no text, text that is not JSON, an
\* empty JSON array, a JSON object without the expected keys, an error object.
CommonBodies ==
    {[t |-> "empty"], [t |-> "text"], [t |-> "list", item |-> "none"],
     [t |-> "obj", kind |-> "other"],
     [t |-> "obj", kind |-> "error", error |-> "not found"]}

CancelBody == [t |-> "obj", kind |-> "cancel", status |-> "cancelled"]
ExperimentBody == [t |-> "obj", kind |-> "experiment"]

\* The bodies explored for the request of operation o: the common ones and
\* the payloads of o's own endpoint.
BodiesFor(o) ==
    CommonBodies \cup
    CASE o \in {"create_job", "get_job", "wait_for_job", "run", "expval"} -> JobBodies
      [] o \in {"list_jobs", "list_backends", "login_with_token"} -> ListBodies
      [] o = "get_results" -> ResultBodies
      [] o = "cancel_job" ->
            {CancelBody,
             [t |-> "obj", kind |-> "job", status |-> "running", error_message |-> NoneTok]}
      [] o = "login" -> TokenBodies
      [] o \in {"create_experiment", "get_experiment"} -> {ExperimentBody}
      [] OTHER -> {}

StatusCodes == {200, 201, 401, 403, 404, 500}

\* The exceptions session.request raises when no response arrives:
\* requests.exceptions.ConnectionError (connection refused, DNS failure) and
\* requests.exceptions.Timeout, both subclasses of RequestException.
TransportFailures == {"ConnectionError", "Timeout"}

\* A response is a transport failure (a requests RequestException) or an
\* HTTP response with a status code and a body.
ResponsesFor(o) ==
    {[k |-> "transport", error |-> e] : e \in TransportFailures}
    \cup {[k |-> "http", code |-> c, body |-> b] : c \in StatusCodes, b \in BodiesFor(o)}

\* ---------------------------------------------------------- request layer
Raise(exc, msg) == [exc |-> exc, msg |-> msg]
Return(v) == [exc |-> "None", val |-> v]

\* response.json(): the parsed tree, or a failure to decode
JsonFails(body) == body.t \in {"empty", "text"}

\* error_data.get("error", fallback) at client.py 214-222
ErrorField(body, fallback) ==
    IF body.t = "empty" THEN "Unknown error"
    ELSE IF body.kind = "error" THEN body.error
    ELSE fallback

\* {"message": response.text} (client.py 227-228): the raw body under the
\* key "message".
Envelope(body) == [t |-> "obj", kind |-> "message", message |-> body]

\* Mutant of NeedsLogin: only None counts as "no token" (`self.token is None`).
NeedsLogin_NoneOnly(tok, endpoint) == tok = NoneTok /\ endpoint # EP_TOKEN

\* _make_request's token guard (client.py 182-183)
NeedsLogin(tok, endpoint) == ~Truthy(tok) /\ endpoint # EP_TOKEN

\* Mutant of HandleResponse: the path is inspected before the status code,
\* so a 5xx / 401 / 403 on a job or experiment path raises the path's error.
HandleResponse_PathFirst(endpoint, r) ==
    IF r.k = "transport" THEN Raise("QuantumClientError", "Request failed")
    ELSE IF r.code >= 400 /\ EndpointHas(endpoint, "job")
        THEN Raise("JobError", "Job operation failed")
    ELSE IF r.code >= 400 /\ EndpointHas(endpoint, "experiment")
        THEN Raise("ExperimentError", "Experiment operation failed")
    ELSE IF r.code >= 500 THEN Raise("QuantumClientError", "Server error")
    ELSE IF r.code = 401 THEN Raise("AuthenticationError", "Authentication failed")
    ELSE IF r.code = 403 THEN Raise("AuthenticationError", "Permission denied")
    ELSE IF r.code >= 400 THEN Raise("QuantumClientError", "Operation failed")
    ELSE IF JsonFails(r.body) THEN Return(Envelope(r.body))
    ELSE Return(r.body)

\* Mutant of HandleResponse: only requests' ConnectionError is caught
\* (`except requests.exceptions.ConnectionError`), so a Timeout reaches the
\* caller as it is.
HandleResponse_TimeoutLeaks(endpoint, r) ==
    IF r.k = "transport" THEN
        IF r.error = "ConnectionError" THEN Raise("QuantumClientError", "Request failed")
        ELSE Raise(r.error, "transport")
    ELSE IF r.code >= 500 THEN Raise("QuantumClientError", "Server error")
    ELSE IF r.code = 401 THEN Raise("AuthenticationError", "Authentication failed")
    ELSE IF r.code = 403 THEN Raise("AuthenticationError", "Permission denied")
    ELSE IF r.code >= 400 THEN
        IF r.body.t = "text" THEN Raise("QuantumClientError", "Request failed")
        ELSE IF r.body.t = "list" THEN Raise("AttributeError", "list has no get")
        ELSE IF EndpointHas(endpoint, "job")
            THEN Raise("JobError", ErrorField(r.body, "Job operation failed"))
        ELSE IF EndpointHas(endpoint, "experiment")
            THEN Raise("ExperimentError", ErrorField(r.body, "Experiment operation failed"))
        ELSE IF EndpointHas(endpoint, "backend")
            THEN Raise("BackendError", ErrorField(r.body, "Backend operation failed"))
        ELSE Raise("QuantumClientError", ErrorField(r.body, "Operation failed"))
    ELSE IF JsonFails(r.body) THEN Return(Envelope(r.body))
    ELSE Return(r.body)

\* Mutant of HandleResponse: a 2xx body that is not JSON is not caught by
\* the inner handler and ends in the handler of RequestException.
HandleResponse_NoFallback(endpoint, r) ==
    IF r.k = "transport" THEN Raise("QuantumClientError", "Request failed")
    ELSE IF r.code >= 500 THEN Raise("QuantumClientError", "Server error")
    ELSE IF r.code = 401 THEN Raise("AuthenticationError", "Authentication failed")
    ELSE IF r.code = 403 THEN Raise("AuthenticationError", "Permission denied")
    ELSE IF r.code >= 400 THEN
        IF r.body.t = "text" THEN Raise("QuantumClientError", "Request failed")
        ELSE IF r.body.t = "list" THEN Raise("AttributeError", "list has no get")
        ELSE IF EndpointHas(endpoint, "job")
            THEN Raise("JobError", ErrorField(r.body, "Job operation failed"))
        ELSE IF EndpointHas(endpoint, "experiment")
            THEN Raise("ExperimentError", ErrorField(r.body, "Experiment operation failed"))
        ELSE IF EndpointHas(endpoint, "backend")
            THEN Raise("BackendError", ErrorField(r.body, "Backend operation failed"))
        ELSE Raise("QuantumClientError", ErrorField(r.body, "Operation failed"))
    ELSE IF JsonFails(r.body) THEN Raise("QuantumClientError", "Request failed")
    ELSE Return(r.body)

\* _make_request after the request was sent: the mapping of the response
\* (client.py 192-235).  requests >= 2.31: a JSON decode failure of
\* response.json() is a RequestException as well as a json.JSONDecodeError.
HandleResponse(endpoint, r) ==
    IF r.k = "transport" THEN Raise("QuantumClientError", "Request failed")
    ELSE IF r.code >= 500 THEN Raise("QuantumClientError", "Server error")
    ELSE IF r.code = 401 THEN Raise("AuthenticationError", "Authentication failed")
    ELSE IF r.code = 403 THEN Raise("AuthenticationError", "Permission denied")
    ELSE IF r.code >= 400 THEN
        IF r.body.t = "text" THEN Raise("QuantumClientError", "Request failed")
        ELSE IF r.body.t = "list" THEN Raise("AttributeError", "list has no get")
        ELSE IF EndpointHas(endpoint, "job")
            THEN Raise("JobError", ErrorField(r.body, "Job operation failed"))
        ELSE IF EndpointHas(endpoint, "experiment")
            THEN Raise("ExperimentError", ErrorField(r.body, "Experiment operation failed"))
        ELSE IF EndpointHas(endpoint, "backend")
            THEN Raise("BackendError", ErrorField(r.body, "Backend operation failed"))
        ELSE Raise("QuantumClientError", ErrorField(r.body, "Operation failed"))
    ELSE IF JsonFails(r.body) THEN Return(Envelope(r.body))
    ELSE Return(r.body)

\* ------------------------------------------------------------------ codecs
\* BlackholeJob.from_dict (models.py 299-313): indexes the required keys.
JobFromDict(v) ==
    IF v.t = "list" THEN Raise("TypeError", "list indices")
    ELSE IF v.kind = "job"
        THEN Return([type |-> "BlackholeJob", status |-> v.status,
                     error_message |-> v.error_message])
    ELSE Raise("KeyError", "id")

\* BlackholeJob.to_dict (models.py 284-297): self.circuit is the JSON value
\* of "circuit_info" (a str, dict, list, number or None), which has no
\* to_dict method.
JobToDict(job) == Raise("AttributeError", "circuit has no to_dict")

\* BlackholeExperiment.from_dict (models.py 342-354)
ExperimentFromDict(v) ==
    IF v.t = "list" THEN Raise("TypeError", "list indices")
    ELSE IF v.kind = "experiment" THEN Return([type |-> "BlackholeExperiment"])
    ELSE Raise("KeyError", "id")

\* BlackholeResult.from_dict (models.py 376-393): only data.get(...) is used.
ResultFromDict(v) ==
    IF v.t = "list" THEN Raise("AttributeError", "list has no get")
    ELSE Return([type |-> "BlackholeResult",
                 processed_results |->
                    IF v.kind = "result" /\ v.shape # "top_counts"
                        THEN v.shape ELSE "None"])

\* [BlackholeJob.from_dict(job_data) for job_data in response] (client.py 317).
\* Iterating a JSON object yields its keys, and a str cannot be indexed by "id".
JobListFromDict(v) ==
    IF v.t = "obj" THEN Raise("TypeError", "string indices")
    ELSE IF v.item = "none" THEN Return([type |-> "list", items |-> <<>>])
    ELSE IF v.item = "job" THEN Return([type |-> "list", items |-> <<"BlackholeJob">>])
    ELSE Raise("KeyError", "id")

\* [SNUBackend.from_dict(obj) for obj in response] (client.py 465, models.py 257-267)
BackendListFromDict(v) ==
    IF v.t = "obj" THEN Raise("TypeError", "string indices")
    ELSE IF v.item = "none" THEN Return([type |-> "list", items |-> <<>>])
    ELSE IF v.item = "backend" THEN Return([type |-> "list", items |-> <<"SNUBackend">>])
    ELSE Raise("KeyError", "name")

\* response.get("status") == "cancelled" (client.py 362)
CancelResult(v) ==
    IF v.t = "list" THEN Raise("AttributeError", "list has no get")
    ELSE Return([type |-> "bool",
                 value |-> v.kind \in {"cancel", "job"} /\ v.status = "cancelled"])

\* ------------------------------------------------------------- operations
\* The operations that go through _make_request with one request each.
RequestOps ==
    {"create_job", "list_jobs", "get_job", "get_results", "cancel_job",
     "list_backends", "get_backend_status", "create_experiment", "get_experiment"}

Endpoint(o) ==
    CASE o = "create_job" -> EP_JOB_CREATE
      [] o = "list_jobs" -> EP_JOBS
      [] o = "get_job" -> EP_JOB
      [] o = "get_results" -> EP_ARCHIVE
      [] o = "cancel_job" -> EP_JOB_CANCEL
      [] o = "list_backends" -> EP_HARDWARE
      [] o = "get_backend_status" -> EP_HARDWARE_STATUS
      [] o = "create_experiment" -> EP_EXPERIMENTS
      [] o = "get_experiment" -> EP_EXPERIMENT
      [] o = "login_with_token" -> EP_HARDWARE
      [] o = "login" -> EP_LOGIN
      [] o = "wait_for_job" -> EP_JOB

\* What each operation does with the parsed response of its request.
Decode(o, v) ==
    CASE o \in {"create_job", "get_job"} -> JobFromDict(v)
      [] o = "list_jobs" -> JobListFromDict(v)
      [] o = "get_results" -> ResultFromDict(v)
      [] o = "cancel_job" -> CancelResult(v)
      [] o = "list_backends" -> BackendListFromDict(v)
      [] o = "get_backend_status" -> Return(v)
      [] o \in {"create_experiment", "get_experiment"} -> ExperimentFromDict(v)

\* create_job's normalisation of the circuit argument (client.py 270-288).
CircuitKinds ==
    {"QuantumCircuit", "QuantumCircuit_undumpable", "json_str_with_qasm",
     "json_str_without_qasm", "qasm_text", "json_number_str",
     "dict_with_qasm", "dict_without_qasm", "other"}

NormalizeCircuit(c) ==
    CASE c \in {"QuantumCircuit", "json_str_with_qasm", "dict_with_qasm"} -> Return("qasm")
      [] c = "json_number_str" -> Raise("TypeError", "argument of type int is not iterable")
      [] OTHER -> Raise("ValueError", "invalid circuit")

\* ------------------------------------------------------------------- state
VARIABLES
    token,      \* self.token
    header,     \* session.headers["Authorization"], or NoHeader
    pc,         \* "idle", "request" (HTTP request in flight), "loop", "sleep"
    op,         \* the operation in progress, or the last one finished
    args,       \* its arguments
    outcome,    \* how it ended: Return(value) or Raise(exception); pending meanwhile
    prev,       \* token and header when the operation was entered
    reqs,       \* endpoints of the HTTP requests the operation has sent, in order
    resp,       \* the last response the operation received
    elapsed,    \* time.time() - start_time inside wait_for_job (0 outside)
    wakeAt,     \* when the current time.sleep ends (0 outside wait_for_job)
    observed,   \* statuses of the descriptors wait_for_job has decoded, in order
    cbLog,      \* statuses the status callback was invoked with, in order
    payload,    \* job_data of the create request the operation sent, or NoPayload
    slept       \* number of time.sleep calls the operation's poll loop has made

vars ==
    <<token, header, pc, op, args, outcome, prev, reqs, resp, elapsed, wakeAt,
      observed, cbLog, payload, slept>>

Pending == [exc |-> "pending"]
NoResp == [k |-> "none"]
NoArgs == [none |-> TRUE]
NoPayload == [none |-> TRUE]

\* SNUQ.__init__ (client.py 44-83): token kept as given; set_token only when
\* it is truthy.
Init ==
    /\ token \in TokenValues
    /\ header = IF Truthy(token) THEN HeaderFor(token) ELSE NoHeader
    /\ pc = "idle"
    /\ op = "__init__"
    /\ args = NoArgs
    /\ outcome = Return([type |-> "None"])
    /\ prev = [token |-> NoneTok, header |-> NoHeader]
    /\ reqs = <<>>
    /\ resp = NoResp
    /\ elapsed = 0
    /\ wakeAt = 0
    /\ observed = <<>>
    /\ cbLog = <<>>
    /\ payload = NoPayload
    /\ slept = 0

\* Entering operation o with arguments a.
Enter(o, a) ==
    /\ pc = "idle"
    /\ op' = o
    /\ args' = a
    /\ prev' = [token |-> token, header |-> header]
    /\ resp' = NoResp
    /\ elapsed' = 0
    /\ wakeAt' = 0
    /\ observed' = <<>>
    /\ cbLog' = <<>>
    /\ slept' = 0

\* The operation ends at once, without a request.
EndNow(out) ==
    /\ pc' = "idle"
    /\ outcome' = out
    /\ reqs' = <<>>
    /\ payload' = NoPayload

\* The operation sends its request and blocks on the response.
Send(endpoint) ==
    /\ pc' = "request"
    /\ outcome' = Pending
    /\ reqs' = <<endpoint>>
    /\ payload' = NoPayload

\* The same with a JSON payload (data=job_data).
SendData(endpoint, data) ==
    /\ pc' = "request"
    /\ outcome' = Pending
    /\ reqs' = <<endpoint>>
    /\ payload' = data

NotAuthenticated == Raise("AuthenticationError", "Not authenticated. Call login() first.")

\* self._make_request(method, endpoint) up to the point the request is sent
MakeRequest(endpoint) ==
    IF NeedsLogin(token, endpoint) THEN EndNow(NotAuthenticated) ELSE Send(endpoint)

MakeRequestData(endpoint, data) ==
    IF NeedsLogin(token, endpoint) THEN EndNow(NotAuthenticated)
    ELSE SendData(endpoint, data)

\* job_data of create_job (client.py 289-297): the qasm text, and with a
\* Hamiltonian its dict and the experiment type "EXPVAL".
JobData(qasm, ham) ==
    [circuit_info |-> qasm,
     hamiltonian |-> ham,
     experiment_type |-> IF ham THEN "EXPVAL" ELSE NoneTok]

\* The body of create_job up to its request (client.py 266-300): its own
\* token check, the circuit normalisation, then the create request.
Submit(c, ham) ==
    IF ~Truthy(token) THEN EndNow(NotAuthenticated)
    ELSE IF NormalizeCircuit(c).exc # "None" THEN EndNow(NormalizeCircuit(c))
    ELSE MakeRequestData(EP_JOB_CREATE, JobData(NormalizeCircuit(c).val, ham))

\* set_token (client.py 85-94)
set_token ==
    \E t \in TokenValues :
        /\ Enter("set_token", [token |-> t])
        /\ token' = t
        /\ header' = HeaderFor(t)
        /\ EndNow(Return([type |-> "None"]))

\* login (client.py 96-131): posts to the login path with the session
\* directly; no token is needed.
login ==
    /\ Enter("login", NoArgs)
    /\ Send(EP_LOGIN)
    /\ UNCHANGED <<token, header>>

\* login_with_token (client.py 133-147): the token is installed, then the
\* probe goes through _make_request.  A falsy token fails the probe before
\* any request; the handler of AuthenticationError then clears it.
login_with_token ==
    \E t \in TokenValues :
        /\ Enter("login_with_token", [token |-> t])
        /\ IF NeedsLogin(t, EP_HARDWARE)
              THEN /\ token' = NoneTok
                   /\ header' = NoHeader
                   /\ EndNow(Raise("AuthenticationError", "Invalid token"))
              ELSE /\ token' = t
                   /\ header' = HeaderFor(t)
                   /\ Send(EP_HARDWARE)

\* create_job (client.py 238-302): its own token check, the circuit
\* normalisation, then the create request.
create_job ==
    \E c \in CircuitKinds, ham \in BOOLEAN :
        /\ Enter("create_job", [circuit |-> c, hamiltonian |-> ham])
        /\ UNCHANGED <<token, header>>
        /\ Submit(c, ham)

\* list_jobs, get_job, get_results, cancel_job, create_experiment,
\* get_experiment, list_backends, get_backend_status (client.py 304-362,
\* 415-480): one request through _make_request, then the decode.
RequestOp(o) ==
    /\ Enter(o, NoArgs)
    /\ UNCHANGED <<token, header>>
    /\ MakeRequest(Endpoint(o))

list_jobs == RequestOp("list_jobs")
get_job == RequestOp("get_job")
get_results == RequestOp("get_results")
cancel_job == RequestOp("cancel_job")
create_experiment == RequestOp("create_experiment")
get_experiment == RequestOp("get_experiment")
list_backends == RequestOp("list_backends")
get_backend_status == RequestOp("get_backend_status")

\* ------------------------------------------------------------ wait_for_job
\* The tuple wait_for_job returns and the error dict of a failure.
WaitResult(ok, v) == [type |-> "tuple", ok |-> ok, result |-> v]
ErrDict(m) == [type |-> "dict", error |-> m]
TimeoutDict == ErrDict("Timeout waiting for job completion")

\* Mutant of LoopContinues: the loop has no timeout budget (`while True`).
LoopContinues_NoBudget(el, timeout) == TRUE

\* while time.time() - start_time < timeout (client.py 386)
LoopContinues(el, timeout) == el < timeout

\* self.get_job(job_id) once the response is in (client.py 329-331)
PollJob(r) ==
    LET res == HandleResponse(EP_JOB, r)
    IN  IF res.exc # "None" THEN res ELSE JobFromDict(res.val)

\* except (JobError, QuantumClientError) (client.py 407)
Caught(exc) == IsInstance(exc, "JobError") \/ IsInstance(exc, "QuantumClientError")

\* if status_callback: status_callback(job.status, job.to_dict())
\* (client.py 390-391): the arguments are evaluated before the call.
CallbackStep(cb, job) ==
    IF ~cb THEN [exc |-> "None", called |-> FALSE]
    ELSE IF JobToDict(job).exc # "None"
        THEN [exc |-> JobToDict(job).exc, msg |-> JobToDict(job).msg, called |-> FALSE]
    ELSE [exc |-> "None", called |-> TRUE]

\* job.error_message or "Job failed" (client.py 400)
ErrorReason(m) == IF m \in {NoneTok, ""} THEN "Job failed" ELSE m

\* The status decision of one poll (client.py 395-405); Pending stands for
\* falling through to time.sleep.
StatusDecision(job) ==
    CASE job.status = "completed" -> Return(WaitResult(TRUE, job))
      [] job.status = "error" ->
            Return(WaitResult(FALSE, ErrDict(ErrorReason(job.error_message))))
      [] job.status = "cancelled" ->
            Return(WaitResult(FALSE, ErrDict("Job was cancelled")))
      [] OTHER -> Pending

\* Mutant of PollStep: an error the loop catches is not returned; the loop
\* sleeps and polls again (`continue` in the except clause).
PollStep_Retries(r, cb) ==
    LET p == PollJob(r)
    IN  IF p.exc # "None"
        THEN [out |-> IF Caught(p.exc) THEN Pending ELSE p,
              obs |-> <<>>, cbs |-> <<>>]
        ELSE LET job == p.val
                 c == CallbackStep(cb, job)
             IN  IF c.exc # "None"
                 THEN [out |-> IF Caught(c.exc)
                                 THEN Return(WaitResult(FALSE, ErrDict(c.msg)))
                                 ELSE Raise(c.exc, c.msg),
                       obs |-> <<job.status>>, cbs |-> <<>>]
                 ELSE [out |-> StatusDecision(job),
                       obs |-> <<job.status>>,
                       cbs |-> IF c.called THEN <<job.status>> ELSE <<>>]

\* One iteration of the loop body after the response arrived (client.py
\* 387-409): out is how the call ends (Pending: it sleeps), obs / cbs the
\* statuses decoded / handed to the callback by this iteration.
PollStep(r, cb) ==
    LET p == PollJob(r)
    IN  IF p.exc # "None"
        THEN [out |-> IF Caught(p.exc)
                        THEN Return(WaitResult(FALSE, ErrDict(p.msg))) ELSE p,
              obs |-> <<>>, cbs |-> <<>>]
        ELSE LET job == p.val
                 c == CallbackStep(cb, job)
             IN  IF c.exc # "None"
                 THEN [out |-> IF Caught(c.exc)
                                 THEN Return(WaitResult(FALSE, ErrDict(c.msg)))
                                 ELSE Raise(c.exc, c.msg),
                       obs |-> <<job.status>>, cbs |-> <<>>]
                 ELSE [out |-> StatusDecision(job),
                       obs |-> <<job.status>>,
                       cbs |-> IF c.called THEN <<job.status>> ELSE <<>>]

\* The operations that run the poll loop: wait_for_job itself, and run and
\* expval, which call it after their create request.
WaitOps == {"wait_for_job", "run", "expval"}

\* The polls (get_job requests) the operation has sent.
IsPoll(e) == e = EP_JOB
PollsSent == Len(SelectSeq(reqs, IsPoll))

\* run / expval are blocked on their create request.
Submitting == pc = "request" /\ reqs # <<>> /\ reqs[Len(reqs)] = EP_JOB_CREATE

\* raise JobError(f"Job {job.id} failed: {msg}") (client.py 545-547,
\* 657-660): the reason of the failure inside the message.
JobFailed(reason) == [exc |-> "JobError", msg |-> "Job <id> failed", reason |-> reason]

\* run after a successful wait (client.py 549-575): the counts are read from
\* res_or_err.processed_results, an attribute of BlackholeResult only.
RunResult(v, a) ==
    IF v.type # "BlackholeResult"
        THEN Raise("AttributeError", "no attribute processed_results")
    ELSE IF v.processed_results # "nested_counts"
        THEN Raise("TypeError", "processed_results has no counts")
    ELSE Return([type |-> "Result", counts |-> "processed_results.counts",
                 circuit |-> a.circuit])

\* expval after a successful wait (client.py 661-662)
ExpvalResult(v) ==
    IF v.type # "BlackholeResult"
        THEN Raise("AttributeError", "no attribute processed_results")
    ELSE IF v.processed_results # "nested_expval"
        THEN Raise("TypeError", "processed_results has no expval")
    ELSE Return([type |-> "float", value |-> "processed_results.expval"])

\* Mutant of Finish: run and expval hand a failed wait back to the caller
\* as the error dict instead of raising.
Finish_ReturnsError(o, a, out) ==
    IF o = "wait_for_job" THEN out
    ELSE IF out.exc # "None" THEN out
    ELSE IF ~out.val.ok THEN Return(out.val.result)
    ELSE IF o = "run" THEN RunResult(out.val.result, a)
    ELSE ExpvalResult(out.val.result)

\* What the operation does with the way its wait_for_job ended: wait_for_job
\* hands it to the caller; run and expval let an exception pass, raise
\* JobError on a failure tuple and convert a success (client.py 538-575,
\* 651-662).
Finish(o, a, out) ==
    IF o = "wait_for_job" THEN out
    ELSE IF out.exc # "None" THEN out
    ELSE IF ~out.val.ok THEN JobFailed(out.val.result.error)
    ELSE IF o = "run" THEN RunResult(out.val.result, a)
    ELSE ExpvalResult(out.val.result)

\* wait_for_job is entered (client.py 383-384): start_time = time.time().
wait_for_job ==
    \E tmo \in 0..MaxTimeout, itv \in 0..MaxInterval, cb \in BOOLEAN :
        /\ Enter("wait_for_job", [timeout |-> tmo, polling_interval |-> itv, cb |-> cb])
        /\ pc' = "loop"
        /\ outcome' = Pending
        /\ reqs' = <<>>
        /\ payload' = NoPayload
        /\ UNCHANGED <<token, header>>

\* The loop condition and, when it holds, the start of get_job: the token
\* guard of _make_request, then the request (client.py 386-388, 182-200).
wait_for_job_loop ==
    /\ pc = "loop"
    /\ IF LoopContinues(elapsed, args.timeout)
       THEN IF NeedsLogin(token, EP_JOB)
            THEN /\ pc' = "idle"
                 /\ outcome' = Finish(op, args,
                        Return(WaitResult(FALSE, ErrDict(NotAuthenticated.msg))))
                 /\ reqs' = reqs
                 /\ elapsed' = 0
            ELSE /\ PollsSent < MaxPolls
                 /\ pc' = "request"
                 /\ reqs' = Append(reqs, EP_JOB)
                 /\ outcome' = outcome
                 /\ elapsed' = elapsed
       ELSE /\ pc' = "idle"
            /\ outcome' = Finish(op, args, Return(WaitResult(FALSE, TimeoutDict)))
            /\ reqs' = reqs
            /\ elapsed' = 0
    /\ UNCHANGED <<token, header, op, args, prev, resp, wakeAt, observed, cbLog,
                   payload, slept>>

\* The response of a poll arrives; the rest of the loop body runs.
wait_for_job_poll(r) ==
    /\ pc = "request"
    /\ op \in WaitOps
    /\ ~Submitting
    /\ LET s == PollStep(r, args.cb)
       IN  /\ resp' = r
           /\ observed' = observed \o s.obs
           /\ cbLog' = cbLog \o s.cbs
           /\ IF s.out = Pending
              THEN /\ pc' = "sleep"
                   /\ wakeAt' = elapsed + args.polling_interval
                   /\ outcome' = outcome
                   /\ elapsed' = elapsed
                   /\ slept' = slept + 1
              ELSE /\ pc' = "idle"
                   /\ wakeAt' = 0
                   /\ outcome' = Finish(op, args, s.out)
                   /\ elapsed' = 0
                   /\ slept' = slept
    /\ UNCHANGED <<token, header, op, args, prev, reqs, payload>>

\* time.sleep(polling_interval) returns (client.py 405)
wait_for_job_wake ==
    /\ pc = "sleep"
    /\ elapsed >= wakeAt
    /\ pc' = "loop"
    /\ wakeAt' = 0
    /\ UNCHANGED <<token, header, op, args, outcome, prev, reqs, resp, elapsed,
                   observed, cbLog, payload, slept>>

\* The clock advances while wait_for_job runs.  It is followed as far as it
\* can change what the call does: up to the timeout, and up to the end of a
\* sleep in progress; later readings of the clock all compare alike.
Tick ==
    /\ op \in WaitOps
    /\ pc # "idle"
    /\ ~Submitting
    /\ elapsed < args.timeout \/ (pc = "sleep" /\ elapsed < wakeAt)
    /\ elapsed' = elapsed + 1
    /\ UNCHANGED <<token, header, pc, op, args, outcome, prev, reqs, resp,
                   wakeAt, observed, cbLog, payload, slept>>

\* ---------------------------------------------------------- run and expval
\* The circuits given to run and expval (a QuantumCircuit by signature).
RunCircuits == {"QuantumCircuit", "QuantumCircuit_undumpable"}

\* circuit.num_qubits and the length of the labels of the SparsePauliOp
\* given to expval (all labels of one operator have the same length).
QubitCounts == {2}
LabelLengths == {1, 2, 3}

\* The timeouts and polling intervals run and expval are called with: a
\* budget that is spent at once and the largest one, with the largest
\* interval.  (wait_for_job itself is explored with every value.)
RunTimeouts == {0, MaxTimeout}
RunIntervals == {MaxInterval}

\* len(p.to_label()) < num_qubits (client.py 635)
LabelTooShort(len, num_qubits) == len < num_qubits

\* run (client.py 527-535): create_job with the circuit, no Hamiltonian.
run ==
    \E c \in RunCircuits, tmo \in RunTimeouts, itv \in RunIntervals :
        /\ Enter("run", [circuit |-> c, timeout |-> tmo, polling_interval |-> itv,
                         cb |-> FALSE])
        /\ UNCHANGED <<token, header>>
        /\ Submit(c, FALSE)

\* expval with a SparsePauliOp (client.py 616-649): the length check of the
\* labels, the Hamiltonian, then create_job with it.
expval ==
    \E c \in RunCircuits, n \in QubitCounts, l \in LabelLengths,
       tmo \in RunTimeouts, itv \in RunIntervals :
        /\ Enter("expval", [circuit |-> c, num_qubits |-> n, label_len |-> l,
                            timeout |-> tmo, polling_interval |-> itv, cb |-> FALSE])
        /\ UNCHANGED <<token, header>>
        /\ IF LabelTooShort(l, n)
              THEN EndNow(Raise("ValueError", "The length of the operators must match"))
              ELSE Submit(c, TRUE)

\* ------------------------------------------------------ response handlers
\* Mutant of LoginStep: every 2xx status counts as a successful login
\* (`response.ok` instead of `status_code == 200`).
LoginStep_Any2xx(r) ==
    IF r.k = "transport"
        THEN [out |-> Raise("AuthenticationError", "Login request failed"), tok |-> "keep"]
    ELSE IF r.code >= 300
        THEN [out |-> Raise("AuthenticationError", "Login failed"), tok |-> "keep"]
    ELSE IF JsonFails(r.body)
        THEN [out |-> Raise("AuthenticationError", "Login request failed"), tok |-> "keep"]
    ELSE IF r.body.t = "list"
        THEN [out |-> Raise("TypeError", "list indices"), tok |-> "keep"]
    ELSE IF r.body.kind # "token"
        THEN [out |-> Raise("KeyError", "token"), tok |-> "keep"]
    ELSE [out |-> Return([type |-> "str", value |-> "success"]), tok |-> r.body.tok]

\* login after session.post returned or failed (client.py 112-131): tok is
\* the token to install, or "keep".
LoginStep(r) ==
    IF r.k = "transport"
        THEN [out |-> Raise("AuthenticationError", "Login request failed"), tok |-> "keep"]
    ELSE IF r.code # 200
        THEN [out |-> Raise("AuthenticationError", "Login failed"), tok |-> "keep"]
    ELSE IF JsonFails(r.body)
        THEN [out |-> Raise("AuthenticationError", "Login request failed"), tok |-> "keep"]
    ELSE IF r.body.t = "list"
        THEN [out |-> Raise("TypeError", "list indices"), tok |-> "keep"]
    ELSE IF r.body.kind # "token"
        THEN [out |-> Raise("KeyError", "token"), tok |-> "keep"]
    ELSE [out |-> Return([type |-> "str", value |-> "success"]), tok |-> r.body.tok]

login_response(r) ==
    /\ pc = "request"
    /\ op = "login"
    /\ LET s == LoginStep(r)
       IN  /\ outcome' = s.out
           /\ token' = IF s.tok = "keep" THEN token ELSE s.tok
           /\ header' = IF s.tok = "keep" THEN header ELSE HeaderFor(s.tok)
    /\ pc' = "idle"
    /\ resp' = r
    /\ UNCHANGED <<op, args, prev, reqs, elapsed, wakeAt, observed, cbLog, payload, slept>>

\* Mutant of ProbeStep: the token is cleared but the Authorization header is
\* not popped from the session.
ProbeStep_KeepsHeader(res, tok, hdr) ==
    IF res.exc = "AuthenticationError"
        THEN [token |-> NoneTok, header |-> hdr,
              out |-> Raise("AuthenticationError", "Invalid token")]
    ELSE IF res.exc # "None"
        THEN [token |-> tok, header |-> hdr, out |-> res]
    ELSE [token |-> tok, header |-> hdr, out |-> Return([type |-> "None"])]

\* login_with_token after the probe (client.py 146-152): res is what
\* _make_request did; the result is the credential kept and the outcome.
ProbeStep(res, tok, hdr) ==
    IF res.exc = "AuthenticationError"
        THEN [token |-> NoneTok, header |-> NoHeader,
              out |-> Raise("AuthenticationError", "Invalid token")]
    ELSE IF res.exc # "None"
        THEN [token |-> tok, header |-> hdr, out |-> res]
    ELSE [token |-> tok, header |-> hdr, out |-> Return([type |-> "None"])]

login_with_token_response(r) ==
    /\ pc = "request"
    /\ op = "login_with_token"
    /\ LET s == ProbeStep(HandleResponse(EP_HARDWARE, r), token, header)
       IN  /\ token' = s.token
           /\ header' = s.header
           /\ outcome' = s.out
    /\ pc' = "idle"
    /\ resp' = r
    /\ UNCHANGED <<op, args, prev, reqs, elapsed, wakeAt, observed, cbLog, payload, slept>>

\* The response of a one-request operation: the status mapping of
\* _make_request, then the operation's decode.
RequestOutcome(o, r) ==
    LET res == HandleResponse(Endpoint(o), r)
    IN  IF res.exc # "None" THEN res ELSE Decode(o, res.val)

\* Mutant of request_response: a 401 makes the request layer drop the
\* credential (token and header) before raising.
request_response_DropsOn401(r) ==
    /\ pc = "request"
    /\ op \in RequestOps
    /\ outcome' = RequestOutcome(op, r)
    /\ pc' = "idle"
    /\ resp' = r
    /\ token' = IF r.k = "http" /\ r.code = 401 THEN NoneTok ELSE token
    /\ header' = IF r.k = "http" /\ r.code = 401 THEN NoHeader ELSE header
    /\ UNCHANGED <<op, args, prev, reqs, elapsed, wakeAt, observed, cbLog, payload, slept>>

request_response(r) ==
    /\ pc = "request"
    /\ op \in RequestOps
    /\ outcome' = RequestOutcome(op, r)
    /\ pc' = "idle"
    /\ resp' = r
    /\ UNCHANGED <<token, header, op, args, prev, reqs, elapsed, wakeAt, observed,
                   cbLog, payload, slept>>

\* The response of the create request of run / expval: create_job raises, or
\* returns the job and wait_for_job is entered (client.py 527-543, 642-656).
submit_response(r) ==
    /\ Submitting
    /\ op \in {"run", "expval"}
    /\ LET res == RequestOutcome("create_job", r)
       IN  IF res.exc # "None"
           THEN /\ pc' = "idle"
                /\ outcome' = res
           ELSE /\ pc' = "loop"
                /\ outcome' = outcome
    /\ resp' = r
    /\ UNCHANGED <<token, header, op, args, prev, reqs, elapsed, wakeAt, observed,
                   cbLog, payload, slept>>

\* ------------------------------------------------------------ data classes
\* Operations on the dataclasses of models.py, called by the user of the
\* client; they send no request.

\* Values given as operators: Pauli strings, the empty string, and a value
\* that is not a str.
NotAStr == "<int 42>"
OperatorValues == {"XZ", "II", "", NotAStr}

\* len(op) for the operator values
StrLen(o) == IF o = "" THEN 0 ELSE 2

\* Lists of at most two operators / coefficients.
Lists(S) == {<<>>} \cup {<<a>> : a \in S} \cup {<<a, b>> : a \in S, b \in S}
OperatorLists == Lists(OperatorValues)
CoefficientLists == Lists({"1.0"})

\* Optional[int] as a sequence: <<>> is None.
NoInt == <<>>
QubitArgs == {NoInt, <<2>>}

\* not isinstance(op, str) or not op (models.py 208)
InvalidOperator(o) == o = NotAStr \/ o = ""

\* Hamiltonian(operators, coefficients, num_qubits) with the dataclass's
\* __post_init__ (models.py 198-210).
HamiltonianInit(ops, cs, nq) ==
    IF Len(ops) # Len(cs)
        THEN Raise("ValueError", "Expected same length for operators and coefficients")
    ELSE IF nq = NoInt /\ ops = <<>>
        THEN Raise("IndexError", "list index out of range")
    ELSE IF nq = NoInt /\ ops[1] = NotAStr
        THEN Raise("TypeError", "object of type int has no len()")
    ELSE IF \E i \in 1..Len(ops) : InvalidOperator(ops[i])
        THEN Raise("ValueError", "Invalid operator")
    ELSE Return([type |-> "Hamiltonian",
                 num_qubits |-> IF nq = NoInt THEN <<StrLen(ops[1])>> ELSE nq,
                 operators |-> ops, coefficients |-> cs])

\* Hamiltonian.from_dict (models.py 219-226): nq is <<>> when the key
\* "num_qubits" is absent from the dict.
HamiltonianFromDict(ops, cs, nq) ==
    IF nq = NoInt /\ ops = <<>>
        THEN Raise("IndexError", "list index out of range")
    ELSE IF nq = NoInt /\ ops[1] = NotAStr
        THEN Raise("TypeError", "object of type int has no len()")
    ELSE HamiltonianInit(ops, cs, IF nq = NoInt THEN <<StrLen(ops[1])>> ELSE nq)

\* The operation ends at once and leaves the client as it is.
DataOp(o, a, out) ==
    /\ Enter(o, a)
    /\ EndNow(out)
    /\ UNCHANGED <<token, header>>

Hamiltonian ==
    \E ops \in OperatorLists, cs \in CoefficientLists, nq \in QubitArgs :
        DataOp("Hamiltonian",
               [num_qubits |-> nq, operators |-> ops, coefficients |-> cs],
               HamiltonianInit(ops, cs, nq))

Hamiltonian_from_dict ==
    \E ops \in OperatorLists, cs \in CoefficientLists, nq \in QubitArgs :
        DataOp("Hamiltonian.from_dict",
               [num_qubits |-> nq, operators |-> ops, coefficients |-> cs],
               HamiltonianFromDict(ops, cs, nq))

\* The statuses the job descriptor documents.
DocumentedStatuses == {"created", "running", "completed", "error", "cancelled"}

\* BlackholeJob.from_dict(data).to_dict() (models.py 284-313)
JobRoundTrip(data) ==
    LET d == JobFromDict(data)
    IN  IF d.exc # "None" THEN d ELSE JobToDict(d.val)

BlackholeJob_round_trip ==
    \E b \in {j \in JobBodies : j.status \in DocumentedStatuses} :
        DataOp("BlackholeJob.round_trip", [data |-> b], JobRoundTrip(b))

\* Measurement outcomes, count maps (outcome -> shots seen) and observables
\* (outcome -> coefficient) given to the numeric methods of BlackholeResult.
Bitstrings == {"00", "11", "01"}
CountValues == {1, 2}
CountMaps ==
    UNION {[D -> CountValues] : D \in (SUBSET {"00", "11"}) \ {{}}}
Observables ==
    [Bitstrings -> {-1, 1}] \cup [{"00"} -> {-1, 1}]

\* sum(f[x] for x in D)
RECURSIVE SumOver(_, _)
SumOver(f, D) ==
    IF D = {} THEN 0
    ELSE LET x == CHOOSE y \in D : TRUE
         IN  f[x] + SumOver(f, D \ {x})

\* The BlackholeResult that from_dict builds from a results payload whose
\* processed_results holds the counts (models.py 386-393): the instance
\* has the dataclass's fields, of which the model keeps processed_results.
ResultRecord(c) == [type |-> "BlackholeResult", processed_results |-> [counts |-> c]]

\* A fraction n/d, kept exact.
Fraction(n, d) == <<n, d>>

\* get_probability (models.py 414-425): self.counts is an attribute lookup
\* on the instance.
GetProbability(rec, b) ==
    IF "counts" \notin DOMAIN rec
        THEN Raise("AttributeError", "BlackholeResult has no attribute counts")
    ELSE LET c == rec.counts
             total_shots == SumOver(c, DOMAIN c)
         IN  IF total_shots = 0 THEN Raise("ZeroDivisionError", "division by zero")
             ELSE Return(Fraction(IF b \in DOMAIN c THEN c[b] ELSE 0, total_shots))

\* get_expectation_value (models.py 395-412)
GetExpectationValue(rec, obs) ==
    IF "counts" \notin DOMAIN rec
        THEN Raise("AttributeError", "BlackholeResult has no attribute counts")
    ELSE LET c == rec.counts
             total_shots == SumOver(c, DOMAIN c)
             both == DOMAIN c \cap DOMAIN obs
         IN  IF total_shots = 0 /\ DOMAIN c # {}
                 THEN Raise("ZeroDivisionError", "division by zero")
             ELSE Return(Fraction(SumOver([x \in both |-> obs[x] * c[x]], both),
                                  total_shots))

get_probability ==
    \E c \in CountMaps, b \in Bitstrings :
        DataOp("get_probability", [counts |-> c, bitstring |-> b],
               GetProbability(ResultRecord(c), b))

get_expectation_value ==
    \E c \in CountMaps, obs \in Observables :
        DataOp("get_expectation_value", [counts |-> c, observable |-> obs],
               GetExpectationValue(ResultRecord(c), obs))

\* ------------------------------------------------------------------- specs
Next ==
    \/ set_token
    \/ login
    \/ login_with_token
    \/ create_job
    \/ list_jobs
    \/ get_job
    \/ get_results
    \/ cancel_job
    \/ create_experiment
    \/ get_experiment
    \/ list_backends
    \/ get_backend_status
    \/ wait_for_job
    \/ run
    \/ expval
    \/ wait_for_job_loop
    \/ wait_for_job_wake
    \/ Tick
    \/ \E r \in ResponsesFor(op) : wait_for_job_poll(r)
    \/ \E r \in ResponsesFor(op) : submit_response(r)
    \/ \E r \in ResponsesFor(op) : login_response(r)
    \/ \E r \in ResponsesFor(op) : login_with_token_response(r)
    \/ \E r \in ResponsesFor(op) : request_response(r)

Spec == Init /\ [][Next]_vars

\* A client constructed without a token or with one token: wait_for_job
\* reads the token only through the guard of _make_request.
WaitInit == Init /\ token \in {NoneTok, "tokA"}

\* Only the actions of wait_for_job, for the termination check.
WaitNext ==
    \/ wait_for_job
    \/ wait_for_job_loop
    \/ wait_for_job_wake
    \/ Tick
    \/ \E r \in ResponsesFor(op) : wait_for_job_poll(r)

\* The scheduling wait_for_job's termination rests on: the clock advances,
\* every network call returns, and the single thread keeps running.
WaitLiveSpec ==
    /\ WaitInit
    /\ [][WaitNext]_vars
    /\ WF_vars(Tick)
    /\ WF_vars(wait_for_job_loop)
    /\ WF_vars(wait_for_job_wake)
    /\ WF_vars(\E r \in ResponsesFor(op) : wait_for_job_poll(r))

\* A client without token: the dataclasses do not use the client.
DataInit == Init /\ token = NoneTok

\* The operations on the dataclasses.
DataNext ==
    \/ Hamiltonian
    \/ Hamiltonian_from_dict
    \/ BlackholeJob_round_trip
    \/ get_probability
    \/ get_expectation_value

DataSpec == DataInit /\ [][DataNext]_vars

\* ------------------------------------------------------------------ claims
InWait == op = "wait_for_job"
WaitDone == InWait /\ pc = "idle"
LastObserved == observed[Len(observed)]
NonTerminalOnly == \A i \in 1..Len(observed) : observed[i] \notin TerminalStatuses
Failure(reason) == Return(WaitResult(FALSE, ErrDict(reason)))

\* A response the service's contract allows for the job endpoint: a transport
\* failure, a job descriptor on a 2xx status, or an error status with an
\* error object or no body.
ContractAnswer(r) ==
    \/ r.k \in {"none", "transport"}
    \/ r.k = "http" /\ r.code < 400 /\ r.body.t = "obj" /\ r.body.kind = "job"
    \/ r.k = "http" /\ r.code >= 400
         /\ (r.body.t = "empty" \/ (r.body.t = "obj" /\ r.body.kind = "error"))

\* C1: wait_for_job never raises: whatever the service answers (any job
\* status, any HTTP status, a transport failure) and whether or not a
\* callback is supplied, the call ends by returning a (success, result) tuple.
C1_NeverRaises ==
    (WaitDone /\ ContractAnswer(resp))
        => (outcome.exc = "None" /\ outcome.val.type = "tuple")

\* C1 without the restriction to well-formed answers: a 2xx answer that is
\* not a job descriptor also ends the call with an exception (KeyError,
\* TypeError) when no callback is supplied.
C1_NeverRaisesAnyAnswer ==
    (WaitDone /\ ~args.cb) => outcome.exc = "None"

\* C2: when a poll observes "completed" (here: without a callback),
\* wait_for_job has fetched the results endpoint and returns
\* (True, BlackholeResult), not the job descriptor.
C2_CompletedReturnsResult ==
    (WaitDone /\ ~args.cb /\ observed # <<>> /\ LastObserved = "completed")
        => /\ outcome.exc = "None"
           /\ outcome.val.ok
           /\ outcome.val.result.type = "BlackholeResult"
           /\ reqs[Len(reqs)] = EP_ARCHIVE

\* C3: when every poll of a call succeeded and none observed a terminal
\* status, the call returns failure with the fixed timeout reason.
C3_TimeoutFailure ==
    (WaitDone /\ Truthy(token) /\ Len(observed) = Len(reqs) /\ NonTerminalOnly)
        => outcome = Failure("Timeout waiting for job completion")

\* C3, second half: a request is started only while the elapsed time is below
\* the timeout.
C3_NoRequestAfterTimeout ==
    [][(InWait /\ pc = "loop" /\ Len(reqs') > Len(reqs)) => elapsed < args.timeout]_vars

\* C3 restricted to calls without a status callback.
C3_WithoutCallback ==
    (WaitDone /\ ~args.cb /\ Truthy(token) /\ Len(observed) = Len(reqs) /\ NonTerminalOnly)
        => outcome = Failure("Timeout waiting for job completion")

\* C4: with a callback supplied, the statuses the callback was invoked with
\* are exactly the statuses decoded from the service so far, in order.
C4_CallbackSeesEveryStatus ==
    (InWait /\ args.cb) => cbLog = observed

\* C5: once a poll observed "error" the call has ended (no further poll, no
\* sleep) with failure whose reason is the descriptor's error_message when
\* present and non-empty, else the fallback "Job failed".
C5_ErrorFailure ==
    (InWait /\ observed # <<>> /\ LastObserved = "error")
        => /\ pc = "idle"
           /\ outcome = Failure(IF resp.body.error_message \in ErrorTexts
                                   THEN resp.body.error_message ELSE "Job failed")

\* C5 restricted to calls without a status callback.
C5_WithoutCallback ==
    (InWait /\ ~args.cb /\ observed # <<>> /\ LastObserved = "error")
        => /\ pc = "idle"
           /\ outcome = Failure(IF resp.body.error_message \in ErrorTexts
                                   THEN resp.body.error_message ELSE "Job failed")

\* C6: once a poll observed "cancelled" the call has ended (no further poll,
\* no sleep) with failure "Job was cancelled", whatever the error_message.
C6_CancelledFailure ==
    (InWait /\ observed # <<>> /\ LastObserved = "cancelled")
        => (pc = "idle" /\ outcome = Failure("Job was cancelled"))

\* C6 restricted to calls without a status callback.
C6_WithoutCallback ==
    (InWait /\ ~args.cb /\ observed # <<>> /\ LastObserved = "cancelled")
        => (pc = "idle" /\ outcome = Failure("Job was cancelled"))

\* C7: every wait_for_job call in progress eventually ends, also when the
\* job never leaves a non-terminal status, provided the clock advances and
\* every network call returns.
C7_Terminates == (InWait /\ pc # "idle") ~> (pc = "idle")

\* C7 witness: a call whose polls all saw a non-terminal status ended on the
\* timeout budget after at least two polls.
C7_Witness ==
    /\ WaitDone
    /\ Len(reqs) >= 2
    /\ Len(observed) = Len(reqs)
    /\ NonTerminalOnly
    /\ outcome = Failure("Timeout waiting for job completion")

\* C8: an operation of the request layer entered while no token is set
\* (None or empty) ends with AuthenticationError and has sent no request.
C8_NoTokenNoRequest ==
    (op \in RequestOps /\ ~Truthy(prev.token))
        => /\ pc = "idle"
           /\ reqs = <<>>
           /\ outcome.exc = "AuthenticationError"

\* C8 witness: get_backend_status was called with an empty token and was
\* refused without a request.
C8_Witness ==
    /\ pc = "idle"
    /\ op = "get_backend_status"
    /\ prev.token = ""
    /\ reqs = <<>>
    /\ outcome.exc = "AuthenticationError"

\* C9: when login_with_token's probe fails with AuthenticationError (the
\* service answered 401 or 403, or the guard refused the token), the call
\* raises AuthenticationError and the client holds no token and no
\* Authorization header; a 401/403 came from exactly one list-backends probe.
C9_InvalidTokenCleared ==
    (pc = "idle" /\ op = "login_with_token")
        => /\ (resp.k = "http" /\ resp.code \in {401, 403})
                => (outcome.exc = "AuthenticationError" /\ reqs = <<EP_HARDWARE>>)
           /\ outcome.exc = "AuthenticationError"
                => (token = NoneTok /\ header = NoHeader /\ Len(reqs) <= 1)

\* C9 witness: a client holding a token called login_with_token with another
\* one, the probe was answered 403, and the client holds nothing.
C9_Witness ==
    /\ pc = "idle"
    /\ op = "login_with_token"
    /\ prev.token = "tokA"
    /\ args.token = "tokB"
    /\ resp.k = "http"
    /\ resp.code = 403
    /\ token = NoneTok
    /\ header = NoHeader

\* C10: apart from construction and the explicit setter, the token held
\* after an operation differs from the one held before it only if the
\* operation was a login or login_with_token that succeeded, or a
\* login_with_token whose verification failed and cleared it.
C10_CredentialFrame ==
    (pc = "idle" /\ op \notin {"__init__", "set_token"} /\ token # prev.token)
        => \/ (op \in {"login", "login_with_token"} /\ outcome.exc = "None")
           \/ (op = "login_with_token" /\ outcome.exc = "AuthenticationError"
                 /\ token = NoneTok)

\* C11: login: on HTTP 200 the token field of the response is installed as
\* the token and the Authorization header and the call returns success; on
\* any other status or a transport failure it raises AuthenticationError
\* and the token and header held before the call are kept.
C11_Login ==
    (pc = "idle" /\ op = "login")
        => /\ (resp.k = "http" /\ resp.code = 200
                 /\ resp.body.t = "obj" /\ resp.body.kind = "token")
                => /\ outcome = Return([type |-> "str", value |-> "success"])
                   /\ token = resp.body.tok
                   /\ header = HeaderFor(resp.body.tok)
           /\ (resp.k = "transport" \/ (resp.k = "http" /\ resp.code # 200))
                => /\ outcome.exc = "AuthenticationError"
                   /\ token = prev.token
                   /\ header = prev.header

\* C11 witness: a client holding tokA logged in, the service answered 200
\* with tokB, and tokB is now the credential.
C11_Witness ==
    /\ pc = "idle"
    /\ op = "login"
    /\ prev.token = "tokA"
    /\ resp.k = "http"
    /\ resp.code = 200
    /\ outcome.exc = "None"
    /\ token = "tokB"
    /\ header = HeaderFor("tokB")

\* C11, the other case reached: a login answered 201 raised and kept tokA.
C11_FailureReached ==
    /\ pc = "idle"
    /\ op = "login"
    /\ prev.token = "tokA"
    /\ resp.k = "http"
    /\ resp.code = 201
    /\ outcome.exc = "AuthenticationError"
    /\ token = "tokA"

\* An operation that is one call of _make_request has ended on an HTTP
\* response.
RequestAnswered == pc = "idle" /\ op \in RequestOps /\ resp.k = "http"

\* C12: in the request layer the status code decides before the path: on
\* every endpoint a status >= 500 raises the client's server error (a
\* QuantumClientError, not a transport exception), 401 raises
\* AuthenticationError "Authentication failed" and 403 raises
\* AuthenticationError "Permission denied".
C12_StatusBeforePath ==
    RequestAnswered
        => /\ resp.code >= 500
                => /\ IsInstance(outcome.exc, "QuantumClientError")
                   /\ outcome.exc \notin {"JobError", "ExperimentError", "BackendError"}
                   /\ outcome.msg = "Server error"
           /\ resp.code = 401
                => outcome = Raise("AuthenticationError", "Authentication failed")
           /\ resp.code = 403
                => outcome = Raise("AuthenticationError", "Permission denied")

\* C12 witness: a 403 on a job path (cancel_job) raised AuthenticationError.
C12_Witness ==
    /\ RequestAnswered
    /\ op = "cancel_job"
    /\ EndpointHas(reqs[1], "job")
    /\ resp.code = 403
    /\ outcome = Raise("AuthenticationError", "Permission denied")

\* C12, the 5xx case reached on an experiment path.
C12_ServerErrorReached ==
    /\ RequestAnswered
    /\ op = "get_experiment"
    /\ resp.code = 500
    /\ outcome = Raise("QuantumClientError", "Server error")

\* The error kind the path of an endpoint selects (client.py 215-222).
KindOfPath(ep) ==
    IF EndpointHas(ep, "job") THEN "JobError"
    ELSE IF EndpointHas(ep, "experiment") THEN "ExperimentError"
    ELSE IF EndpointHas(ep, "backend") THEN "BackendError"
    ELSE "QuantumClientError"

\* A status in 400..499 other than 401 and 403.
OtherClientStatus(code) == code >= 400 /\ code < 500 /\ code \notin {401, 403}

\* C13: for every response with a status in 400..499 other than 401 and
\* 403, whatever its body, the request layer raises the error kind the path
\* selects: JobError, else ExperimentError, else BackendError, else the
\* generic QuantumClientError.
C13_PathDecidesKind ==
    (RequestAnswered /\ OtherClientStatus(resp.code))
        => outcome.exc = KindOfPath(reqs[1])

\* C13 for the bodies the code can read: no body or a JSON object.
C13_ObjectOrEmptyBody ==
    (RequestAnswered /\ OtherClientStatus(resp.code) /\ resp.body.t \in {"empty", "obj"})
        => outcome.exc = KindOfPath(reqs[1])

\* An operation has ended on a transport failure of its request.
TransportFailed == pc = "idle" /\ resp.k = "transport"

\* C14: every transport failure (connection error, timeout) of a request of
\* the request layer is mapped to the same kind of the client's taxonomy,
\* QuantumClientError "Request failed", and in no operation does the
\* transport exception itself reach the caller.
C14_TransportMapped ==
    TransportFailed
        => /\ outcome.exc \notin TransportFailures
           /\ outcome.exc # "None" => outcome.exc \in ClientErrors
           /\ op \in RequestOps \cup {"login_with_token"}
                => outcome = Raise("QuantumClientError", "Request failed")
           /\ op = "wait_for_job" => outcome = Failure("Request failed")

\* C14 witness: get_results timed out and raised QuantumClientError.
C14_Witness ==
    /\ TransportFailed
    /\ op = "get_results"
    /\ resp.error = "Timeout"
    /\ outcome = Raise("QuantumClientError", "Request failed")

\* An operation through the request layer has ended on a 2xx response.
SuccessAnswered ==
    /\ pc = "idle"
    /\ op \in RequestOps \cup {"login_with_token"}
    /\ resp.k = "http"
    /\ resp.code >= 200
    /\ resp.code < 300

\* C15: a 2xx response never makes the request layer raise: no operation
\* ends with an error of the request layer on a 2xx, and the operation that
\* returns the layer's value unchanged (get_backend_status) returns the
\* parsed JSON tree, or {message: raw text} when the body is not JSON.
C15_SuccessNeverRaises ==
    SuccessAnswered
        => /\ outcome.exc \notin ClientErrors
           /\ op = "get_backend_status"
                => outcome =
                     Return(IF resp.body.t \in {"list", "obj"}
                              THEN resp.body
                              ELSE [t |-> "obj", kind |-> "message",
                                    message |-> resp.body])

\* C15 witness: get_backend_status was answered 200 with text that is not
\* JSON and returned the fallback envelope.
C15_Witness ==
    /\ SuccessAnswered
    /\ op = "get_backend_status"
    /\ resp.code = 200
    /\ resp.body.t = "text"
    /\ outcome.exc = "None"
    /\ outcome.val.kind = "message"
    /\ outcome.val.message = resp.body

\* The last request of the operation failed: no response, or an error status.
RequestFailed == resp.k = "transport" \/ (resp.k = "http" /\ resp.code >= 400)

\* C16: no retry: an operation other than wait_for_job, run and expval has
\* sent at most one request, and in every operation, the poll loop included,
\* a failed request ends the call, so no request follows a failed one.
C16_NoRetry ==
    /\ op \notin WaitOps => Len(reqs) <= 1
    /\ RequestFailed => pc = "idle"

\* C16 as a step property: within a call, a request is sent only when the
\* call has no failed request behind it.
C16_NoRequestAfterFailure ==
    [][(pc # "idle" /\ Len(reqs') > Len(reqs)) => ~RequestFailed]_vars

\* C16 witness: wait_for_job's second poll was answered 500 and the call
\* ended there with the failure tuple.
C16_Witness ==
    /\ WaitDone
    /\ Len(reqs) = 2
    /\ Len(observed) = 1
    /\ resp.k = "http"
    /\ resp.code = 500
    /\ outcome = Failure("Server error")

\* Circuit payloads that are a serialized string holding the qasm text or a
\* dict holding it, and payloads that are neither a circuit nor hold one.
WithQasm == {"json_str_with_qasm", "dict_with_qasm"}
WithoutCircuit == {"json_str_without_qasm", "dict_without_qasm", "other"}

\* C17: create_job (token set) given a string or a structured object that
\* holds the circuit text sends exactly one create request carrying that
\* text; given any other payload it raises ValidationError at once, with no
\* request sent.
C17_CreateJobPayload ==
    (op = "create_job" /\ Truthy(prev.token))
        => /\ args.circuit \in WithQasm
                => (reqs = <<EP_JOB_CREATE>> /\ payload.circuit_info = "qasm")
           /\ args.circuit \in WithoutCircuit
                => /\ pc = "idle"
                   /\ reqs = <<>>
                   /\ outcome.exc = "ValidationError"

\* C17 with the exception the code raises: the rejection happens before any
\* request, with the builtin ValueError.
C17_RejectedWithValueError ==
    (op = "create_job" /\ Truthy(prev.token))
        => /\ args.circuit \in WithQasm
                => (reqs = <<EP_JOB_CREATE>> /\ payload.circuit_info = "qasm")
           /\ args.circuit \in WithoutCircuit \cup {"qasm_text"}
                => /\ pc = "idle"
                   /\ reqs = <<>>
                   /\ outcome.exc = "ValueError"

\* run or expval has ended.
RunDone == pc = "idle" /\ op \in {"run", "expval"}

\* The create request of run / expval was answered with a job descriptor.
IsJobAnswer(r) ==
    r.k = "http" /\ r.code < 400 /\ r.body.t = "obj" /\ r.body.kind = "job"

\* run / expval got as far as wait_for_job.
WaitEntered == reqs # <<>> /\ (PollsSent > 0 \/ IsJobAnswer(resp))

\* The last poll of the wait observed "completed".
WaitSucceeded == observed # <<>> /\ LastObserved = "completed"

\* C18: when the job of a run reached "completed", run returns the Result
\* envelope whose counts are the counts of the job's result record, with
\* the sizes of the circuit of the call.
C18_RunReturnsCounts ==
    (RunDone /\ op = "run" /\ WaitSucceeded)
        => /\ outcome.exc = "None"
           /\ outcome.val.type = "Result"
           /\ outcome.val.counts = "processed_results.counts"
           /\ outcome.val.circuit = args.circuit

\* The reason wait_for_job reports for the way the wait ended without
\* success, read from what the service answered.
ReasonOfFailure ==
    IF PollsSent > Len(observed) THEN
        IF resp.k = "transport" THEN "Request failed"
        ELSE IF resp.code >= 500 THEN "Server error"
        ELSE IF resp.code = 401 THEN "Authentication failed"
        ELSE IF resp.code = 403 THEN "Permission denied"
        ELSE IF resp.body.t = "empty" THEN "Unknown error"
        ELSE resp.body.error
    ELSE IF observed = <<>> \/ LastObserved \notin TerminalStatuses
        THEN "Timeout waiting for job completion"
    ELSE IF LastObserved = "cancelled" THEN "Job was cancelled"
    ELSE IF resp.body.error_message \in ErrorTexts THEN resp.body.error_message
    ELSE "Job failed"

C19_TimeoutReached ==
    /\ RunDone
    /\ op = "expval"
    /\ PollsSent = 2
    /\ Len(observed) = 2
    /\ outcome = JobFailed("Timeout waiting for job completion")

C19_PollErrorReached ==
    /\ RunDone
    /\ op = "run"
    /\ PollsSent = 2
    /\ Len(observed) = 1
    /\ resp.k = "transport"
    /\ outcome = JobFailed("Request failed")

\* The create requests the operation has sent.
IsCreate(e) == e = EP_JOB_CREATE
CreatesSent == Len(SelectSeq(reqs, IsCreate))

\* C20: expval with a weighted-sum operator (token set, circuit
\* serializable): labels shorter than the qubit count raise ValidationError
\* with no job submitted; otherwise one job is submitted carrying the
\* Hamiltonian and the expectation-value experiment type, and when the job
\* reached "completed" the call returns the expectation value of the
\* result record.
C20_Expval ==
    (op = "expval" /\ Truthy(prev.token) /\ args.circuit = "QuantumCircuit")
        => /\ args.label_len < args.num_qubits
                => /\ pc = "idle"
                   /\ reqs = <<>>
                   /\ outcome.exc = "ValidationError"
           /\ args.label_len >= args.num_qubits
                => /\ CreatesSent = 1
                   /\ payload.hamiltonian
                   /\ payload.experiment_type = "EXPVAL"
           /\ (pc = "idle" /\ WaitSucceeded)
                => outcome = Return([type |-> "float", value |-> "processed_results.expval"])

\* C20 up to the wait, with the exception the code raises: the length check
\* precedes the submission, and a submitted job carries the Hamiltonian and
\* the experiment type.
C20_ValidationAndSubmission ==
    (op = "expval" /\ Truthy(prev.token) /\ args.circuit = "QuantumCircuit")
        => /\ args.label_len < args.num_qubits
                => /\ pc = "idle"
                   /\ reqs = <<>>
                   /\ outcome.exc = "ValueError"
           /\ args.label_len >= args.num_qubits
                => /\ CreatesSent = 1
                   /\ payload.hamiltonian
                   /\ payload.experiment_type = "EXPVAL"

\* C20, last part alone: a completed job makes expval return the scalar.
C20_CompletedReturnsScalar ==
    (RunDone /\ op = "expval" /\ WaitSucceeded)
        => outcome = Return([type |-> "float", value |-> "processed_results.expval"])

\* A Hamiltonian construction has ended.
HamiltonianDone == pc = "idle" /\ op \in {"Hamiltonian", "Hamiltonian.from_dict"}

\* C21: constructing a Hamiltonian, directly or through from_dict, either
\* fails with ValidationError or yields an object whose operators and
\* coefficients have equal length and at least one element.
C21_HamiltonianValid ==
    HamiltonianDone
        => \/ outcome.exc = "ValidationError"
           \/ /\ outcome.exc = "None"
              /\ Len(outcome.val.operators) = Len(outcome.val.coefficients)
              /\ Len(outcome.val.operators) >= 1

\* C21, the length invariant alone: whatever is constructed has operators
\* and coefficients of equal length.
C21_EqualLength ==
    (HamiltonianDone /\ outcome.exc = "None")
        => Len(outcome.val.operators) = Len(outcome.val.coefficients)

\* C21, an empty operator list is never accepted.
C21_NeverEmpty ==
    (HamiltonianDone /\ outcome.exc = "None") => Len(outcome.val.operators) >= 1

\* C22: for every valid job descriptor JSON with a documented status,
\* from_dict followed by to_dict gives back the original fields.
C22_JobRoundTrip ==
    (pc = "idle" /\ op = "BlackholeJob.round_trip") => outcome = Return(args.data)

\* C23: every job descriptor the client returns (create_job, get_job) or
\* decodes in the poll loop (and hands to the callback) has a documented
\* status; a payload with another status is not decoded into a descriptor.
C23_DocumentedStatusOnly ==
    /\ (pc = "idle" /\ op \in {"create_job", "get_job"} /\ outcome.exc = "None")
            => outcome.val.status \in DocumentedStatuses
    /\ \A i \in 1..Len(observed) : observed[i] \in DocumentedStatuses

\* get_results has decoded a results payload.
ResultsDecoded ==
    /\ pc = "idle"
    /\ op = "get_results"
    /\ resp.k = "http"
    /\ resp.code < 300
    /\ resp.body.t = "obj"
    /\ resp.body.kind = "result"

\* What a decoded result record carries of the payload.
RecordCarries(rec) ==
    CASE rec.processed_results = "nested_counts" -> "counts"
      [] rec.processed_results = "nested_expval" -> "expval"
      [] OTHER -> "nothing"

\* C24: decoding a results payload is tolerant of both schemas: the record
\* carries the counts of a payload with a top-level `counts` or with
\* `processed_results.counts`, and the expval of one with
\* `processed_results.expval`.
C24_TolerantDecode ==
    ResultsDecoded
        => /\ outcome.exc = "None"
           /\ RecordCarries(outcome.val) =
                 IF resp.body.shape \in {"top_counts", "nested_counts"}
                    THEN "counts" ELSE "expval"

\* C24 for the nested schema alone.
C24_NestedSchema ==
    (ResultsDecoded /\ resp.body.shape # "top_counts")
        => /\ outcome.exc = "None"
           /\ RecordCarries(outcome.val) =
                 IF resp.body.shape = "nested_counts" THEN "counts" ELSE "expval"

\* The total of a count map, and the weighted sum of an observable over
\* the outcomes present in both maps.
Total(c) == SumOver(c, DOMAIN c)
Weighted(c, obs) ==
    SumOver([x \in DOMAIN c \cap DOMAIN obs |-> obs[x] * c[x]],
            DOMAIN c \cap DOMAIN obs)

\* C25: for a result record with counts of positive total,
\* get_probability(b) is counts[b] / total (0 for an outcome not counted)
\* and get_expectation_value(obs) is the sum over the outcomes in both maps
\* of obs[b] * counts[b] / total.  Fractions are compared exactly.
C25_Numerics ==
    /\ (pc = "idle" /\ op = "get_probability")
            => /\ outcome.exc = "None"
               /\ outcome.val[2] > 0
               /\ outcome.val[1] * Total(args.counts) =
                     outcome.val[2] * (IF args.bitstring \in DOMAIN args.counts
                                         THEN args.counts[args.bitstring] ELSE 0)
    /\ (pc = "idle" /\ op = "get_expectation_value")
            => /\ outcome.exc = "None"
               /\ outcome.val[2] > 0
               /\ outcome.val[1] * Total(args.counts) =
                     outcome.val[2] * Weighted(args.counts, args.observable)

\* C26: every operation of the client that has ended either returned a
\* value or raised an error of the client's taxonomy (QuantumClientError or
\* a subclass).
C26_TaxonomyOnly ==
    pc = "idle" => outcome.exc \in ClientErrors \cup {"None"}

\* C26 for one of the named cases: a 4xx response with a body that is not
\* JSON ends in an error of the taxonomy.
C26_NonJsonErrorBody ==
    (RequestAnswered /\ resp.code >= 400 /\ resp.body.t \in {"empty", "text"})
        => outcome.exc \in ClientErrors

\* C27: after any sequence of construction, set_token, login and
\* login_with_token calls, the session carries an Authorization header if
\* and only if the client holds a token (one the request layer accepts),
\* and the header is derived from exactly that token.
C27_HeaderIffToken ==
    pc = "idle"
        => /\ header # NoHeader <=> Truthy(token)
           /\ header # NoHeader => header = HeaderFor(token)

\* C27 reading "holds a token" as "the token attribute is not None".
C27_HeaderIffTokenSet ==
    pc = "idle"
        => /\ header # NoHeader <=> token # NoneTok
           /\ header # NoHeader => header = HeaderFor(token)

\* C27, the parts that hold: a header is always derived from the token
\* held, and a token the request layer accepts always has its header.
C27_HeaderDerivedFromToken ==
    /\ header # NoHeader => header = HeaderFor(token)
    /\ Truthy(token) => header = HeaderFor(token)

\* The operation families of the client.
JobOperations == {"create_job", "list_jobs", "get_job", "get_results", "cancel_job"}
BackendOperations == {"list_backends", "get_backend_status"}

\* The operation was answered a 4xx status other than 401 / 403 with a body
\* the request layer reads (an error object or no body).
FailedWithClientStatus ==
    /\ RequestAnswered
    /\ OtherClientStatus(resp.code)
    /\ resp.body.t \in {"empty", "obj"}

\* C28: the error kind matches the operation family: a job operation that
\* fails with a 4xx status other than 401 / 403 raises JobError, a backend
\* operation that fails that way raises BackendError.
C28_KindMatchesFamily ==
    FailedWithClientStatus
        => /\ op \in JobOperations => outcome.exc = "JobError"
           /\ op \in BackendOperations => outcome.exc = "BackendError"

\* C28 for the job operations whose path holds "job".
C28_JobPathOperations ==
    (FailedWithClientStatus /\ op \in JobOperations \ {"get_results"})
        => outcome.exc = "JobError"

\* C29: the request layer never changes the credential: during and after
\* every operation other than login, login_with_token and the setter,
\* whatever the service answered (401 and 403 included, also mid-poll), the
\* token and the Authorization header are those held when it was entered.
C29_RequestKeepsCredential ==
    op \in RequestOps \cup WaitOps
        => (token = prev.token /\ header = prev.header)

\* C29 witness: the second poll of a wait_for_job was answered 401 and the
\* client still holds tokA and its header.
C29_Witness ==
    /\ WaitDone
    /\ Len(reqs) = 2
    /\ resp.k = "http"
    /\ resp.code = 401
    /\ prev.token = "tokA"
    /\ token = "tokA"
    /\ header = HeaderFor("tokA")

\* C29, another case reached: cancel_job was answered 403.
C29_ForbiddenReached ==
    /\ RequestAnswered
    /\ op = "cancel_job"
    /\ resp.code = 403
    /\ token = prev.token
    /\ Truthy(token)
    /\ header = HeaderFor(token)


\* The last poll of the call was answered and decoded to a job descriptor.
LastPollDecoded == observed # <<>> /\ Len(observed) = Len(reqs)

\* The claim of C30 for the calls in Calls (a predicate on the state).
SleepsBetweenPolls(Calls) ==
    (InWait /\ Calls) =>
        /\ (LastPollDecoded /\ LastObserved \notin TerminalStatuses)
              => /\ slept = Len(reqs)
                 /\ \/ pc \in {"sleep", "loop", "request"}
                    \/ outcome = Failure("Timeout waiting for job completion")
        /\ (LastPollDecoded /\ LastObserved \in TerminalStatuses)
              => (pc = "idle" /\ slept = Len(reqs) - 1)
        /\ pc = "request" => slept = Len(reqs) - 1
        /\ pc = "sleep" => wakeAt <= elapsed + args.polling_interval
        /\ args.timeout = 0 => (reqs = <<>> /\ cbLog = <<>> /\ slept = 0)

\* C30: in wait_for_job a decoded status outside completed / error /
\* cancelled is followed by exactly one sleep of the polling interval and,
\* while the budget lasts, by the next poll; a poll is in flight only with one
\* sleep behind each earlier poll; no sleep follows a terminal status; with
\* a timeout of zero nothing is polled and the callback is never invoked.
C30_SleepsBetweenPolls == SleepsBetweenPolls(TRUE)

\* C30 restricted to calls without a status callback.
C30_WithoutCallback == SleepsBetweenPolls(~args.cb)

\* C30, the order of polls and sleeps: every poll after the first is started
\* with exactly one sleep behind each earlier poll, and a sleep is started
\* only by the answer of a poll that has none behind it yet.
C30_OneSleepPerPoll ==
    [][InWait =>
         /\ (Len(reqs') > Len(reqs)) => slept = Len(reqs)
         /\ (slept' > slept) => (slept' = Len(reqs) /\ pc = "request" /\ pc' = "sleep")]_vars

\* States of C30: a second poll in flight after one sleep; a call with a
\* zero timeout ended without a poll.
C30_SecondPollReached == InWait /\ pc = "request" /\ Len(reqs) = 2 /\ slept = 1
C30_ZeroTimeoutReached ==
    InWait /\ args.cb /\ args.timeout = 0 /\ pc = "idle" /\ reqs = <<>>


====
